---- MODULE Spec2Model ----
(***************************************************************************)
(* The A2A bridge of xin122-rohit/a2a_adk: the JSON-RPC chat handler of    *)
(* src/function_app.py and of src/local_agent.py, and the remote           *)
(* create-thread / post-message / start-run / poll / list-messages turn    *)
(* they drive, and the three discovery handlers (the two get_agent_card    *)
(* and src/getagentcard/__init__.py).  One service process is modelled (Init picks which of the   *)
(* two programs it runs); the remote assistant service is the environment  *)
(* and answers every call nondeterministically.                            *)
(***************************************************************************)
EXTENDS Integers, Sequences, FiniteSets, TLC

VARIABLES
    service,     \* which program this process runs
    loop,        \* the turn whose coroutine occupies the event loop, 0 if none
    pc,          \* pc[t]: where turn t's handler stands
    body,        \* body[t]: the raw request body turn t received
    request_id,  \* request_id[t]: local request_id / req_id
    user_text,   \* user_text[t]: local user_text
    thread_id,   \* thread_id[t]: local thread_id
    run_id,      \* run_id[t]: local run_id
    calls,       \* calls[t]: the requests.request calls turn t made, with answers
    sleeps,      \* sleeps[t]: how many times turn t ran time.sleep(1.5)
    response,    \* response[t]: what the handler returned (or the fault that escaped)
    discovery    \* the discovery request in hand: handler, request, response, count

vars == <<service, loop, pc, body, request_id, user_text, thread_id, run_id,
          calls, sleeps, response, discovery>>

(***************************************************************************)
(* Bounds of the model.                                                    *)
(***************************************************************************)
\* longest parts list a request carries
MaxParts == 2
\* most non-terminal statuses the remote run reports before a terminal one
MaxPolls == 2
\* longest message list the remote service returns
MaxMsgs == 2
\* most discovery requests served
MaxServed == 2

Turns == {1, 2}

FUNCTION_APP == "function_app"
LOCAL_AGENT == "local_agent"
Services == {FUNCTION_APP, LOCAL_AGENT}

(***************************************************************************)
(* JSON values, as json.loads / req.get_json() / request.json() build      *)
(* them: every value carries its Python type in the field t.               *)
(***************************************************************************)
None == [t |-> "null"]
Str(s) == [t |-> "str", s |-> s]
Num(n) == [t |-> "num", n |-> n]
Arr(a) == [t |-> "arr", a |-> a]
Obj(o) == [t |-> "obj", o |-> o]
EmptyObj == Obj(<<>>)
EmptyArr == Arr(<<>>)
\* a body that is no JSON text at all
Unparseable == [t |-> "invalid"]
\* a key the sender left out (only used to build the request sets)
Absent == [t |-> "absent"]
\* a local variable the handler has not assigned yet
Unset == [t |-> "unset"]

\* isinstance(v, dict)
IsDict(v) == v.t = "obj"
\* k in v, for a dict v
Has(v, k) == k \in DOMAIN v.o
\* v.get(k, default), for a dict v
Get(v, k, default) == IF k \in DOMAIN v.o THEN v.o[k] ELSE default
\* bool(v)
Truthy(v) ==
    CASE v.t = "str" -> v.s # ""
      [] v.t = "num" -> v.n # 0
      [] v.t = "arr" -> Len(v.a) > 0
      [] v.t = "obj" -> DOMAIN v.o # {}
      [] OTHER -> FALSE
\* str(v) inside an f-string
PyStr(v) ==
    CASE v.t = "str" -> v.s
      [] v.t = "num" -> ToString(v.n)
      [] v.t = "null" -> "None"
      [] OTHER -> "<object>"

\* the keys of a dict in some order, as the strings iterating the dict yields
RECURSIVE KeySeq(_)
KeySeq(ks) ==
    IF ks = {} THEN <<>>
    ELSE LET k == CHOOSE x \in ks : TRUE IN <<Str(k)>> \o KeySeq(ks \ {k})

\* the items iterating a str yields: one one-character str per character
\* (which character is not modelled: the handlers only test whether an
\* item is a dict)
Chars(s) == [i \in 1..Len(s) |-> Str("?")]

\* iter(v): whether `for part in v` can start, and the items it then yields
Iterable(v) == v.t \in {"arr", "obj", "str"}
Items(v) ==
    CASE v.t = "arr" -> v.a
      [] v.t = "obj" -> KeySeq(DOMAIN v.o)
      [] v.t = "str" -> Chars(v.s)

\* an exception raised inside a handler
Exc(type, msg) == [type |-> type, msg |-> msg]

(***************************************************************************)
(* Responses.  An HTTP response carries the JSON document the handler      *)
(* serialised; a fault is an exception that left the handler uncaught.     *)
(***************************************************************************)
CORS == [Access_Control_Allow_Origin |-> "*"]
NoResponse == [kind |-> "none"]
Unhandled(exc) == [kind |-> "fault", exc |-> exc]

\* function_app: func.HttpResponse(json.dumps(resp), status_code=200, headers=...)
HttpResponse(doc) ==
    [kind |-> "http", status |-> 200, headers |-> CORS, doc |-> doc]
\* local_agent: JSONResponse(content=..., [status_code=200,] headers=...)
JSONResponse(doc) ==
    [kind |-> "http", status |-> 200, headers |-> CORS, doc |-> doc]

\* _jsonrpc_error as it would be if the id were not passed on
_jsonrpc_error_noid(code, message, req_id) ==
    HttpResponse(Obj([jsonrpc |-> Str("2.0"),
                      error |-> Obj([code |-> Num(code), message |-> Str(message)]),
                      id |-> None]))
\* function_app._jsonrpc_error
_jsonrpc_error(code, message, req_id) ==
    HttpResponse(Obj([jsonrpc |-> Str("2.0"),
                      error |-> Obj([code |-> Num(code), message |-> Str(message)]),
                      id |-> req_id]))
\* function_app._jsonrpc_success
_jsonrpc_success(result, req_id) ==
    HttpResponse(Obj([jsonrpc |-> Str("2.0"), result |-> result, id |-> req_id]))
\* jsonrpc_error as it would be if it also filled a null result
jsonrpc_error_with_result(code, message, req_id) ==
    Obj([jsonrpc |-> Str("2.0"),
         result |-> None,
         error |-> Obj([code |-> Num(code), message |-> Str(message)]),
         id |-> req_id])
\* local_agent.jsonrpc_error (the dict alone; the caller wraps it)
jsonrpc_error(code, message, req_id) ==
    Obj([jsonrpc |-> Str("2.0"),
         error |-> Obj([code |-> Num(code), message |-> Str(message)]),
         id |-> req_id])

(***************************************************************************)
(* The synchronous head of each handler: parse, envelope checks, text      *)
(* extraction.  Its outcome is a response to return, an exception that     *)
(* escapes, or the locals the remote part starts from.                     *)
(***************************************************************************)
Return(r) == [kind |-> "return", response |-> r]
Raise(e) == [kind |-> "raise", exc |-> e]
Go(id, text) == [kind |-> "go", request_id |-> id, user_text |-> text]
\* the outcome of a scan of the parts: the text found ("" if none), or a fault
Found(text) == [kind |-> "found", text |-> text]

SupportedMethods == {Str("sendMessage"), Str("message/send")}

\* function_app.chat, the loop over parts: the first dict part with
\* type == "text" and a "text" key ends the scan, whatever its text is
RECURSIVE function_app_scan(_, _)
function_app_scan(items, i) ==
    IF i > Len(items) THEN Found(Str(""))
    ELSE LET part == items[i] IN
         IF IsDict(part) /\ Get(part, "type", None) = Str("text") /\ Has(part, "text")
         THEN Found(part.o["text"])
         ELSE function_app_scan(items, i + 1)

\* local_agent.chat, the loop over parts: part.get faults on a part that is
\* no dict; the first part with kind == "text" and a truthy text ends the scan
RECURSIVE local_agent_scan(_, _)
local_agent_scan(items, i) ==
    IF i > Len(items) THEN Found(Str(""))
    ELSE LET part == items[i] IN
         IF ~IsDict(part) THEN Raise(Exc("AttributeError", "get"))
         ELSE IF Get(part, "kind", None) = Str("text") /\ Truthy(Get(part, "text", None))
         THEN Found(part.o["text"])
         ELSE local_agent_scan(items, i + 1)

\* function_app.chat up to the first remote call
function_app_head(b) ==
    IF b = Unparseable THEN Return(_jsonrpc_error(-32700, "Parse error", None))
    ELSE IF ~IsDict(b) THEN Return(_jsonrpc_error(-32600, "Invalid Request", None))
    ELSE IF Get(b, "jsonrpc", None) # Str("2.0")
    THEN Return(_jsonrpc_error(-32600, "Invalid JSON-RPC version", None))
    ELSE IF ~Has(b, "method") \/ ~Has(b, "id")
    THEN Return(_jsonrpc_error(-32600, "Missing method or id", None))
    ELSE LET method == b.o["method"]
             req_id == b.o["id"]
             params == Get(b, "params", EmptyObj)
         IN
         IF method \notin SupportedMethods
         THEN Return(_jsonrpc_error(-32601, "Method not found: " \o PyStr(method), req_id))
         ELSE IF ~IsDict(params) THEN Raise(Exc("AttributeError", "get"))
         ELSE LET message == Get(params, "message", EmptyObj) IN
         IF ~IsDict(message) THEN Raise(Exc("AttributeError", "get"))
         ELSE LET parts == Get(message, "parts", EmptyArr) IN
         IF ~Iterable(parts) THEN Raise(Exc("TypeError", "not iterable"))
         ELSE LET scan == function_app_scan(Items(parts), 1) IN
         IF ~Truthy(scan.text)
         THEN Return(_jsonrpc_error(-32602, "Invalid params: no valid text part", req_id))
         ELSE Go(req_id, scan.text)

\* local_agent.chat up to the first remote call
local_agent_head(b) ==
    IF b = Unparseable
    THEN Return(JSONResponse(jsonrpc_error(-32700, "Parse error", None)))
    ELSE IF ~IsDict(b) THEN Raise(Exc("AttributeError", "get"))
    ELSE IF Get(b, "jsonrpc", None) # Str("2.0")
    THEN Return(JSONResponse(jsonrpc_error(-32600, "Invalid JSON-RPC version",
                                           Get(b, "id", None))))
    ELSE IF Get(b, "method", None) \notin SupportedMethods
    THEN Return(JSONResponse(jsonrpc_error(-32601,
                    "Method not found: " \o PyStr(Get(b, "method", None)),
                    Get(b, "id", None))))
    ELSE LET req_id == Get(b, "id", None)
             params == Get(b, "params", EmptyObj)
         IN
         IF ~IsDict(params) THEN Raise(Exc("AttributeError", "get"))
         ELSE LET message == Get(params, "message", EmptyObj) IN
         IF ~IsDict(message) THEN Raise(Exc("AttributeError", "get"))
         ELSE LET parts == Get(message, "parts", EmptyArr) IN
         IF ~Iterable(parts) THEN Raise(Exc("TypeError", "not iterable"))
         ELSE LET scan == local_agent_scan(Items(parts), 1) IN
         IF scan.kind = "raise" THEN scan
         ELSE IF ~Truthy(scan.text)
         THEN Return(JSONResponse(jsonrpc_error(-32602, "No valid text part", req_id)))
         ELSE Go(req_id, scan.text)

\* the handler the process runs
chat_head(svc, b) == IF svc = FUNCTION_APP THEN function_app_head(b) ELSE local_agent_head(b)

(***************************************************************************)
(* The remote part of a turn: call_api, and what the handler does with     *)
(* each answer.                                                            *)
(***************************************************************************)
\* call_api(method, url, json_body) with the answer it got: either
\* requests / raise_for_status / get_token raised, or resp.json()
Call(method, url, json_body, ans) ==
    [method |-> method, url |-> url, json |-> json_body, ans |-> ans]
Failed(e) == [ok |-> FALSE, exc |-> e]
Ok(v) == [ok |-> TRUE, json |-> v]

\* the five URLs below BASE_URL, as path segments
ThreadsUrl == <<"threads">>
MessagesUrl(tid) == <<"threads", PyStr(tid), "messages">>
RunsUrl(tid) == <<"threads", PyStr(tid), "runs">>
RunUrl(tid, rid) == <<"threads", PyStr(tid), "runs", PyStr(rid)>>

\* which remote operation a logged call is
OpOf(c) ==
    CASE c.method = "POST" /\ Len(c.url) = 1 -> "create_thread"
      [] c.method = "POST" /\ Len(c.url) = 3 /\ c.url[3] = "messages" -> "post_message"
      [] c.method = "POST" /\ Len(c.url) = 3 /\ c.url[3] = "runs" -> "start_run"
      [] c.method = "GET" /\ Len(c.url) = 4 -> "get_run_status"
      [] c.method = "GET" /\ Len(c.url) = 3 /\ c.url[3] = "messages" -> "list_messages"
      [] OTHER -> "other"

\* v[k] for a string key k or v[i] for an index i: the value, or the
\* KeyError / IndexError / TypeError Python raises (an index into a str is
\* taken to raise as well: each index in the handlers is followed by a key
\* subscript, which raises TypeError on the character it would yield)
Key(k) == [key |-> k]
Idx(i) == [idx |-> i]
Value(v) == [kind |-> "value", v |-> v]
Subscript(v, k) ==
    IF "key" \in DOMAIN k
    THEN IF v.t # "obj" THEN Raise(Exc("TypeError", "subscript"))
         ELSE IF k.key \notin DOMAIN v.o THEN Raise(Exc("KeyError", "'" \o k.key \o "'"))
         ELSE Value(v.o[k.key])
    ELSE IF v.t # "arr" THEN Raise(Exc("TypeError", "subscript"))
         ELSE IF k.idx + 1 \notin 1..Len(v.a)
         THEN Raise(Exc("IndexError", "list index out of range"))
         ELSE Value(v.a[k.idx + 1])
\* v[k1][k2]...
RECURSIVE Path(_, _)
Path(v, ks) ==
    IF ks = <<>> THEN Value(v)
    ELSE LET r == Subscript(v, ks[1]) IN
         IF r.kind = "raise" THEN r ELSE Path(r.v, Tail(ks))

ASSISTANT_ID == "asst_zQ8ANX9CJfElxVlHKEKiLa5P"

\* IsCompleted as it would be if the loop tested for another spelling
IsCompleted_misspelt(status) == status = Str("complete")
\* status == "completed"
\* IsCompleted as it would be if a queued run counted as completed
IsCompleted_or_queued(status) == status \in {Str("completed"), Str("queued")}
IsCompleted(status) == status = Str("completed")
\* IsRunFailure as it would be if the loop tested for failed alone
IsRunFailure_failed_only(status) == status = Str("failed")
\* status in ["failed", "cancelled"]
\* IsRunFailure as it would be if an expired run ended the turn as well
IsRunFailure_or_expired(status) == status \in {Str("failed"), Str("cancelled"), Str("expired")}
IsRunFailure(status) == status \in {Str("failed"), Str("cancelled")}
\* RuntimeError(f"Run {status}")
RunError(status) == Exc("RuntimeError", "Run " \o PyStr(status))

\* next((m for m in data if m["role"] == "assistant"), None)
NoMessage == [kind |-> "nomsg"]
\* first_assistant as it would be if the last assistant message were taken
RECURSIVE first_assistant_last(_, _)
first_assistant_last(ms, i) ==
    IF i > Len(ms) THEN NoMessage
    ELSE LET role == Subscript(ms[i], Key("role"))
             later == first_assistant_last(ms, i + 1)
         IN
         IF role.kind = "raise" THEN role
         ELSE IF later # NoMessage THEN later
         ELSE IF role.v = Str("assistant") THEN Value(ms[i])
         ELSE NoMessage
RECURSIVE first_assistant(_, _)
first_assistant(ms, i) ==
    IF i > Len(ms) THEN NoMessage
    ELSE LET role == Subscript(ms[i], Key("role")) IN
         IF role.kind = "raise" THEN role
         ELSE IF role.v = Str("assistant") THEN Value(ms[i])
         ELSE first_assistant(ms, i + 1)

\* lines 167-169 / 180-182 after call_api returned `messages`:
\* the reply text, or the exception raised on the way
reply_text_of(messages) ==
    LET data == Subscript(messages, Key("data")) IN
    IF data.kind = "raise" THEN data
    ELSE IF ~Iterable(data.v) THEN Raise(Exc("TypeError", "not iterable"))
    ELSE LET reply_msg == first_assistant(Items(data.v), 1) IN
         IF reply_msg.kind = "raise" THEN reply_msg
         ELSE IF reply_msg = NoMessage THEN Value(Str("No reply"))
         ELSE Path(reply_msg.v, <<Key("content"), Idx(0), Key("text"), Key("value")>>)

\* the `except Exception as e` branch of each handler
function_app_except(e, req_id) == _jsonrpc_error(-32000, e.msg, req_id)
local_agent_except(e, req_id) == JSONResponse(jsonrpc_error(-32000, e.msg, req_id))
\* chat_except as it would be if the except branch answered -32602
chat_except_invalid_params(svc, e, req_id) ==
    IF svc = FUNCTION_APP THEN _jsonrpc_error(-32602, e.msg, req_id)
    ELSE JSONResponse(jsonrpc_error(-32602, e.msg, req_id))
chat_except(svc, e, req_id) ==
    IF svc = FUNCTION_APP THEN function_app_except(e, req_id)
    ELSE local_agent_except(e, req_id)

\* params.message as local_agent.chat reads it again for contextId
MessageOf(b) == Get(Get(b, "params", EmptyObj), "message", EmptyObj)

\* function_app.chat, "Return Success"
function_app_success(reply_text, req_id) ==
    _jsonrpc_success(
        Obj([result |-> Obj([role |-> Str("assistant"),
                             parts |-> Arr(<<Obj([type |-> Str("text"),
                                                  text |-> reply_text])>>)])]),
        req_id)

\* local_agent.chat, "Return A2A-compliant Task"; the three uuid4 values are given
local_agent_success(reply_text, req_id, message, task_id, message_id, fresh_context) ==
    LET given == Get(message, "contextId", None)
        context_id == IF Truthy(given) THEN given ELSE fresh_context
        task == Obj([kind |-> Str("task"),
                     id |-> task_id,
                     contextId |-> context_id,
                     status |-> Str("completed"),
                     messages |-> Arr(<<Obj([role |-> Str("assistant"),
                                             parts |-> Arr(<<Obj([kind |-> Str("text"),
                                                                  text |-> reply_text])>>),
                                             messageId |-> message_id])>>)])
    IN JSONResponse(Obj([jsonrpc |-> Str("2.0"), result |-> task, id |-> req_id]))

(***************************************************************************)
(* The inputs: request bodies, and the answers of the remote service.      *)
(***************************************************************************)
\* all sequences over S of length at most n
SeqsUpTo(S, n) == UNION {[1..k -> S] : k \in 0..n}
\* the dict with the keys of c that are not Absent
Mk(c) == Obj([k \in {k2 \in DOMAIN c : c[k2] # Absent} |-> c[k]])
\* all dicts that take, for each key k, a value of choices[k] (or leave k out)
Dicts(choices) ==
    {Mk(c) : c \in {f \in [DOMAIN choices -> UNION {choices[k] : k \in DOMAIN choices}] :
                        \A k \in DOMAIN choices : f[k] \in choices[k]}}

TextPart(tag, text) == Mk([kind |-> IF tag = "kind" THEN Str("text") ELSE Absent,
                           type |-> IF tag = "type" THEN Str("text") ELSE Absent,
                           text |-> text])
PartValues ==
    { Num(5),                              \* a part that is no object
      Obj([kind |-> Str("file")]),         \* a part of another kind
      TextPart("kind", Str("")),
      TextPart("kind", Str("hi")),
      TextPart("type", Str("")),
      TextPart("type", Str("yo")),
      TextPart("type", Absent) }           \* a text part without text
PartLists == SeqsUpTo(PartValues, MaxParts)

MessageWith(parts) == Obj([message |-> Obj([parts |-> parts])])
BothPart == Obj([kind |-> Str("text"), type |-> Str("text"), text |-> Str("both")])
ParamsValues ==
    { Absent, None, EmptyObj,
      Obj([message |-> Str("hello")]),
      Obj([message |-> EmptyObj]),
      MessageWith(Num(5)),
      MessageWith(Str("hi")),
      MessageWith(Obj([text |-> Str("hi")])),
      Obj([message |-> Obj([parts |-> Arr(<<BothPart>>), contextId |-> Str("ctx")])]) }
    \cup {MessageWith(Arr(ps)) : ps \in PartLists}

\* every envelope, over a few params
EnvelopeBodies ==
    Dicts([jsonrpc |-> {Absent, Str("2.0"), Str("1.0")},
           method |-> {Absent, Str("message/send"), Str("sendMessage"), Str("tasks/get")},
           id |-> {Absent, Str("1"), Num(7)},
           params |-> {Absent, None, MessageWith(Arr(<<BothPart>>)),
                       MessageWith(Arr(<<Obj([kind |-> Str("file")])>>))}])
\* every params, under one good envelope
ParamsBodies ==
    {Mk([jsonrpc |-> Str("2.0"), method |-> Str("message/send"), id |-> Str("1"),
         params |-> p]) : p \in ParamsValues}
Bodies == {Unparseable, None, Str("hello"), EmptyArr} \cup EnvelopeBodies \cup ParamsBodies

HTTPError == Exc("HTTPError", "500 Server Error")
CreateAnswers == {Failed(HTTPError), Ok(EmptyObj), Ok(Obj([id |-> Str("thread_1")]))}
PostAnswers == {Failed(HTTPError), Ok(Obj([id |-> Str("msg_1")]))}
StartAnswers == {Failed(HTTPError), Ok(EmptyObj), Ok(Obj([id |-> Str("run_1")]))}
\* statuses the loop does not name: the documented queued and in_progress, and one more
WaitingStatuses == {Str("queued"), Str("in_progress"), Str("expired")}
EndStatuses == {Str("completed"), Str("failed"), Str("cancelled")}
StatusAnswers(more) ==
    {Failed(HTTPError), Ok(EmptyObj)}
    \cup {Ok(Obj([status |-> st])) : st \in EndStatuses}
    \cup IF more THEN {Ok(Obj([status |-> st])) : st \in WaitingStatuses} ELSE {}
Msg(role, text) ==
    Obj([role |-> Str(role),
         content |-> Arr(<<Obj([type |-> Str("text"),
                                text |-> Obj([value |-> Str(text)])])>>)])
MsgValues == {Msg("user", "Q"), Msg("assistant", "Paris"), Msg("assistant", "Rome")}
ListAnswers ==
    {Failed(HTTPError), Ok(EmptyObj),
     Ok(Obj([data |-> Arr(<<Obj([role |-> Str("assistant"), content |-> EmptyArr])>>)]))}
    \cup {Ok(Obj([data |-> Arr(ms)])) : ms \in SeqsUpTo(MsgValues, MaxMsgs)}
\* what uuid.uuid4() may return; no handler reads the value back
UUIDs == {Str("uuid4")}

(***************************************************************************)
(* Discovery: the three handlers that serve the Agent Card.                *)
(***************************************************************************)
True == [t |-> "bool", b |-> TRUE]
Strs(ss) == Arr([i \in 1..Len(ss) |-> Str(ss[i])])

\* the card dict both get_agent_card build, up to its url
Card(url) ==
    Obj([name |-> Str("Capital Agent"),
         description |-> Str("Answers capital-city questions for any country"),
         version |-> Str("1.0.0"),
         url |-> Str(url),
         preferredTransport |-> Str("JSONRPC"),
         protocolVersion |-> Str("0.3.0"),
         capabilities |-> Obj([streaming |-> True]),
         defaultInputModes |-> Strs(<<"text">>),
         defaultOutputModes |-> Strs(<<"text">>),
         skills |-> Arr(<<Obj([id |-> Str("capital_query"),
                               name |-> Str("capital_query"),
                               description |-> Str("Answers capital-city questions"),
                               inputModes |-> Strs(<<"text">>),
                               outputModes |-> Strs(<<"text">>),
                               tags |-> Strs(<<"capital", "country">>)])>>)])
function_app_card ==
    Card("https://func-a2a5055-a6fufrexfuaed0f7.eastus2-01.azurewebsites.net/api/chat")
local_agent_card == Card("http://127.0.0.1:8000/api/chat")
\* what json.load reads from ../agent-card.json: the static Agent Card
agent_card_json == Card("/api/chat")

\* an HTTP request: its method, its url as the segments between the slashes
\* (those of the path, then those of the query string), and its body
Request(method, path, query, req_body) ==
    [method |-> method, path |-> path, query |-> query, body |-> req_body]
NoRequest == [method |-> "none"]
NoHeaders == <<>>
JSON == "application/json"

\* '/.well-known/agent-card.json' in a text cut at its slashes
Mentions(segs) ==
    \E i \in 1..(Len(segs) - 1) : segs[i] = ".well-known" /\ segs[i + 1] = "agent-card.json"
\* '/.well-known/agent-card.json' in req.url
InUrl(req) == Mentions(req.path) \/ Mentions(<<"?">> \o req.query)

\* function_app.get_agent_card: the card, JSON mimetype, 200, the CORS header
function_app_get_agent_card(req) ==
    [kind |-> "http", status |-> 200, mimetype |-> JSON, headers |-> CORS,
     doc |-> function_app_card]
\* local_agent.get_agent_card: JSONResponse(content=card, headers=CORS)
local_agent_get_agent_card ==
    [kind |-> "http", status |-> 200, mimetype |-> JSON, headers |-> CORS,
     doc |-> local_agent_card]
\* getagentcard.main
main(req) ==
    IF req.method = "GET" /\ InUrl(req)
    THEN [kind |-> "http", status |-> 200, mimetype |-> JSON, headers |-> NoHeaders,
          doc |-> agent_card_json]
    ELSE [kind |-> "http", status |-> 404, mimetype |-> "text/plain",
          headers |-> NoHeaders, doc |-> Str("Not Found")]

GETAGENTCARD == "getagentcard"
DiscoveryHandlers == {FUNCTION_APP, LOCAL_AGENT, GETAGENTCARD}
DiscoveryPath == <<"api", "chat", ".well-known", "agent-card.json">>
RequestBodies == {Unparseable, None, Obj([jsonrpc |-> Str("2.0")])}
Queries == {<<>>, <<"x=1">>, <<"next=", ".well-known", "agent-card.json">>}
\* the requests the route of each handler lets through: GET on the one
\* route for the two get_agent_card, anything for main
Routed(h) ==
    IF h \in {FUNCTION_APP, LOCAL_AGENT}
    THEN {Request("GET", DiscoveryPath, q, b) : q \in Queries, b \in RequestBodies}
    ELSE {Request(m, p, q, b) :
            m \in {"GET", "POST"},
            p \in {DiscoveryPath, <<".well-known", "agent-card.json">>, <<"api", "chat">>},
            q \in Queries, b \in RequestBodies}

(***************************************************************************)
(* The state machine.                                                      *)
(***************************************************************************)
Init ==
    /\ service \in Services
    /\ loop = 0
    /\ pc = [t \in Turns |-> "idle"]
    /\ body = [t \in Turns |-> Unset]
    /\ request_id = [t \in Turns |-> Unset]
    /\ user_text = [t \in Turns |-> Unset]
    /\ thread_id = [t \in Turns |-> Unset]
    /\ run_id = [t \in Turns |-> Unset]
    /\ calls = [t \in Turns |-> <<>>]
    /\ sleeps = [t \in Turns |-> 0]
    /\ response = [t \in Turns |-> NoResponse]
    /\ discovery = [pc |-> "idle", handler |-> "none", request |-> NoRequest,
                    response |-> NoResponse, served |-> 0]

\* the waiting statuses turn t has seen so far
Waited(t) ==
    Cardinality({i \in 1..Len(calls[t]) :
        /\ OpOf(calls[t][i]) = "get_run_status"
        /\ calls[t][i].ans.ok
        /\ IsDict(calls[t][i].ans.json)
        /\ Has(calls[t][i].ans.json, "status")
        /\ calls[t][i].ans.json.o["status"] \in WaitingStatuses})

\* the handler of turn t returns r (or lets a fault escape) and frees the loop
Finish(t, r) ==
    /\ response' = [response EXCEPT ![t] = r]
    /\ pc' = [pc EXCEPT ![t] = "done"]
    /\ loop' = 0

\* turn t logs the call and lands in the except branch with e
Except(t, call, e) ==
    /\ calls' = [calls EXCEPT ![t] = Append(@, call)]
    /\ Finish(t, chat_except(service, e, request_id[t]))

\* a POST on the chat route reaches the server
Receive(t, bodies) ==
    /\ pc[t] = "idle"
    /\ \E b \in bodies : body' = [body EXCEPT ![t] = b]
    /\ pc' = [pc EXCEPT ![t] = "received"]
    /\ UNCHANGED <<discovery, service, loop, request_id, user_text, thread_id, run_id,
                   calls, sleeps, response>>

\* chat, from its first line to the first call_api: the coroutine takes the
\* event loop and keeps it until it returns, as nothing below awaits
Validate(t) ==
    /\ pc[t] = "received"
    /\ loop = 0
    /\ LET out == chat_head(service, body[t]) IN
       CASE out.kind = "return" ->
              /\ Finish(t, out.response)
              /\ UNCHANGED <<request_id, user_text>>
         [] out.kind = "raise" ->
              /\ Finish(t, Unhandled(out.exc))
              /\ UNCHANGED <<request_id, user_text>>
         [] out.kind = "go" ->
              /\ request_id' = [request_id EXCEPT ![t] = out.request_id]
              /\ user_text' = [user_text EXCEPT ![t] = out.user_text]
              /\ pc' = [pc EXCEPT ![t] = "create_thread"]
              /\ loop' = t
              /\ UNCHANGED response
    /\ UNCHANGED <<discovery, service, body, thread_id, run_id, calls, sleeps>>

\* thread = call_api("POST", .../threads, {}); thread_id = thread["id"]
CreateThread(t) ==
    /\ pc[t] = "create_thread"
    /\ loop = t
    /\ \E ans \in CreateAnswers :
         LET call == Call("POST", ThreadsUrl, EmptyObj, ans)
             id == IF ans.ok THEN Subscript(ans.json, Key("id")) ELSE Raise(ans.exc)
         IN IF id.kind = "raise"
            THEN Except(t, call, id.exc) /\ UNCHANGED thread_id
            ELSE /\ calls' = [calls EXCEPT ![t] = Append(@, call)]
                 /\ thread_id' = [thread_id EXCEPT ![t] = id.v]
                 /\ pc' = [pc EXCEPT ![t] = "post_message"]
                 /\ UNCHANGED <<loop, response>>
    /\ UNCHANGED <<discovery, service, body, request_id, user_text, run_id, sleeps>>

\* PostMessage as it would be if a failed call did not raise
PostMessage_unchecked(t) ==
    /\ pc[t] = "post_message"
    /\ loop = t
    /\ \E ans \in PostAnswers :
         LET call == Call("POST", MessagesUrl(thread_id[t]),
                          Obj([role |-> Str("user"), content |-> user_text[t]]), ans)
         IN /\ calls' = [calls EXCEPT ![t] = Append(@, call)]
            /\ pc' = [pc EXCEPT ![t] = "start_run"]
            /\ UNCHANGED <<loop, response>>
    /\ UNCHANGED <<discovery, service, body, request_id, user_text, thread_id, run_id, sleeps>>

\* call_api("POST", .../threads/{thread_id}/messages, {"role": "user", "content": user_text})
PostMessage(t) ==
    /\ pc[t] = "post_message"
    /\ loop = t
    /\ \E ans \in PostAnswers :
         LET call == Call("POST", MessagesUrl(thread_id[t]),
                          Obj([role |-> Str("user"), content |-> user_text[t]]), ans)
         IN IF ~ans.ok
            THEN Except(t, call, ans.exc)
            ELSE /\ calls' = [calls EXCEPT ![t] = Append(@, call)]
                 /\ pc' = [pc EXCEPT ![t] = "start_run"]
                 /\ UNCHANGED <<loop, response>>
    /\ UNCHANGED <<discovery, service, body, request_id, user_text, thread_id, run_id, sleeps>>

\* run = call_api("POST", .../threads/{thread_id}/runs, {"assistant_id": ...}); run_id = run["id"]
StartRun(t) ==
    /\ pc[t] = "start_run"
    /\ loop = t
    /\ \E ans \in StartAnswers :
         LET call == Call("POST", RunsUrl(thread_id[t]),
                          Obj([assistant_id |-> Str(ASSISTANT_ID)]), ans)
             id == IF ans.ok THEN Subscript(ans.json, Key("id")) ELSE Raise(ans.exc)
         IN IF id.kind = "raise"
            THEN Except(t, call, id.exc) /\ UNCHANGED run_id
            ELSE /\ calls' = [calls EXCEPT ![t] = Append(@, call)]
                 /\ run_id' = [run_id EXCEPT ![t] = id.v]
                 /\ pc' = [pc EXCEPT ![t] = "poll"]
                 /\ UNCHANGED <<loop, response>>
    /\ UNCHANGED <<discovery, service, body, request_id, user_text, thread_id, sleeps>>

\* one pass of `while True` up to the sleep: poll, read the status, branch
GetRunStatus(t) ==
    /\ pc[t] = "poll"
    /\ loop = t
    /\ \E ans \in StatusAnswers(Waited(t) < MaxPolls) :
         LET call == Call("GET", RunUrl(thread_id[t], run_id[t]), None, ans)
             status == IF ans.ok THEN Subscript(ans.json, Key("status")) ELSE Raise(ans.exc)
         IN IF status.kind = "raise" THEN Except(t, call, status.exc)
            ELSE IF IsCompleted(status.v)
            THEN /\ calls' = [calls EXCEPT ![t] = Append(@, call)]
                 /\ pc' = [pc EXCEPT ![t] = "list_messages"]
                 /\ UNCHANGED <<loop, response>>
            ELSE IF IsRunFailure(status.v) THEN Except(t, call, RunError(status.v))
            ELSE /\ calls' = [calls EXCEPT ![t] = Append(@, call)]
                 /\ pc' = [pc EXCEPT ![t] = "sleep"]
                 /\ UNCHANGED <<loop, response>>
    /\ UNCHANGED <<discovery, service, body, request_id, user_text, thread_id, run_id, sleeps>>

\* Sleep as it would be if time.sleep never returned
Sleep_stuck(t) ==
    /\ pc[t] = "sleep"
    /\ loop = t
    /\ UNCHANGED vars

\* time.sleep(1.5): the coroutine blocks, holding the event loop
Sleep(t) ==
    /\ pc[t] = "sleep"
    /\ loop = t
    /\ sleeps' = [sleeps EXCEPT ![t] = @ + 1]
    /\ pc' = [pc EXCEPT ![t] = "poll"]
    /\ UNCHANGED <<discovery, service, loop, body, request_id, user_text, thread_id, run_id,
                   calls, response>>

\* messages = call_api("GET", .../threads/{thread_id}/messages), the reply
\* text, and the success response
ListMessages(t) ==
    /\ pc[t] = "list_messages"
    /\ loop = t
    /\ \E ans \in ListAnswers :
         LET call == Call("GET", MessagesUrl(thread_id[t]), None, ans)
             reply == IF ans.ok THEN reply_text_of(ans.json) ELSE Raise(ans.exc)
         IN IF reply.kind = "raise" THEN Except(t, call, reply.exc)
            ELSE /\ calls' = [calls EXCEPT ![t] = Append(@, call)]
                 /\ IF service = FUNCTION_APP
                    THEN Finish(t, function_app_success(reply.v, request_id[t]))
                    ELSE \E task_id \in UUIDs, message_id \in UUIDs, context_id \in UUIDs :
                           Finish(t, local_agent_success(reply.v, request_id[t],
                                      MessageOf(body[t]), task_id, message_id, context_id))
    /\ UNCHANGED <<discovery, service, body, request_id, user_text, thread_id, run_id, sleeps>>

\* one step of turn t's handler
Step(t) ==
    \/ Validate(t)
    \/ CreateThread(t)
    \/ PostMessage(t)
    \/ StartRun(t)
    \/ GetRunStatus(t)
    \/ Sleep(t)
    \/ ListMessages(t)

\* one request at a time, over every request body
Next == Receive(1, Bodies) \/ Step(1)
Spec == Init /\ [][Next]_vars

\* requests with an envelope, served by a handler that always runs on:
\* every call_api and every time.sleep returns, and the run reports a
\* terminal status after at most MaxPolls others
LiveBodies == EnvelopeBodies
NextLive == Receive(1, LiveBodies) \/ Step(1)
SpecLive == Init /\ [][NextLive]_vars /\ WF_vars(Step(1))

\* two requests in flight in one process: a request with a text part both
\* handlers accept, and one with none
ConcBodies ==
    {Mk([jsonrpc |-> Str("2.0"), method |-> Str("message/send"), id |-> Str("1"),
         params |-> MessageWith(Arr(<<part>>))]) :
        part \in {BothPart, Obj([kind |-> Str("file")])}}
NextConc == \E t \in Turns : Receive(t, ConcBodies) \/ Step(t)
SpecConc == Init /\ [][NextConc]_vars

\* a request reaches one of the discovery handlers
DiscoveryReceive ==
    /\ discovery.pc \in {"idle", "done"}
    /\ discovery.served < MaxServed
    /\ \E h \in DiscoveryHandlers : \E req \in Routed(h) :
         discovery' = [discovery EXCEPT !.pc = "received", !.handler = h,
                                        !.request = req, !.response = NoResponse]
    /\ UNCHANGED <<service, loop, pc, body, request_id, user_text, thread_id, run_id,
                   calls, sleeps, response>>

\* the answer r to the request in hand
Served(r) == [discovery EXCEPT !.pc = "done", !.response = r, !.served = @ + 1]

\* function_app.get_agent_card runs
FunctionAppGetAgentCard ==
    /\ discovery.pc = "received"
    /\ discovery.handler = FUNCTION_APP
    /\ discovery' = Served(function_app_get_agent_card(discovery.request))
    /\ UNCHANGED <<service, loop, pc, body, request_id, user_text, thread_id, run_id,
                   calls, sleeps, response>>

\* local_agent.get_agent_card runs
LocalAgentGetAgentCard ==
    /\ discovery.pc = "received"
    /\ discovery.handler = LOCAL_AGENT
    /\ discovery' = Served(local_agent_get_agent_card)
    /\ UNCHANGED <<service, loop, pc, body, request_id, user_text, thread_id, run_id,
                   calls, sleeps, response>>

\* getagentcard.main runs
GetAgentCardMain ==
    /\ discovery.pc = "received"
    /\ discovery.handler = GETAGENTCARD
    /\ discovery' = Served(main(discovery.request))
    /\ UNCHANGED <<service, loop, pc, body, request_id, user_text, thread_id, run_id,
                   calls, sleeps, response>>

\* discovery requests alone, one at a time
NextCard ==
    \/ DiscoveryReceive
    \/ FunctionAppGetAgentCard
    \/ LocalAgentGetAgentCard
    \/ GetAgentCardMain
SpecCard == Init /\ [][NextCard]_vars

(***************************************************************************)
(* Vocabulary of the properties.                                           *)
(***************************************************************************)
Done(t) == pc[t] = "done"
\* the JSON document of turn t's response
Doc(t) == response[t].doc
\* the response is HTTP 200 with a JSON-RPC envelope
IsEnvelope(doc) ==
    /\ IsDict(doc)
    /\ Get(doc, "jsonrpc", None) = Str("2.0")
    /\ Has(doc, "result") # Has(doc, "error")
Is200Envelope(r) == r.kind = "http" /\ r.status = 200 /\ IsEnvelope(r.doc)
\* the response is HTTP 200 with an error envelope of this code
IsError(r, code) ==
    /\ Is200Envelope(r)
    /\ Has(r.doc, "error")
    /\ r.doc.o["error"].o["code"] = Num(code)
IsSuccess(r) == Is200Envelope(r) /\ Has(r.doc, "result")
\* the reply text a success envelope carries, in the shape of each service
ReplyPath ==
    IF service = FUNCTION_APP
    THEN <<Key("result"), Key("result"), Key("parts"), Idx(0), Key("text")>>
    ELSE <<Key("result"), Key("messages"), Idx(0), Key("parts"), Idx(0), Key("text")>>
CarriesReply(r, text) == IsSuccess(r) /\ Path(r.doc, ReplyPath) = Value(text)

IsPoll(c) == OpOf(c) = "get_run_status"
IsList(c) == OpOf(c) = "list_messages"
Polls(t) == SelectSeq(calls[t], IsPoll)
Lists(t) == SelectSeq(calls[t], IsList)
\* the call was answered with a run status
HasStatus(c) == c.ans.ok /\ IsDict(c.ans.json) /\ Has(c.ans.json, "status")
StatusOf(c) == c.ans.json.o["status"]
LastCall(t) == calls[t][Len(calls[t])]

\* the id the request submitted, None if it submitted none
SubmittedId(b) == IF IsDict(b) THEN Get(b, "id", None) ELSE None

\* C1: every finished chat request, whatever its body and whatever the
\* remote service answered, was answered HTTP 200 with a JSON-RPC envelope;
\* none ended in an unhandled fault.
C1_Always200 == \A t \in Turns : Done(t) => Is200Envelope(response[t])

\* the run of turn t reported n waiting statuses (queued, in_progress) and then completed
CompletedAfter(t, n) ==
    LET polls == Polls(t) IN
    /\ Len(polls) = n + 1
    /\ \A i \in 1..(n + 1) : HasStatus(polls[i])
    /\ \A i \in 1..n : StatusOf(polls[i]) \in {Str("queued"), Str("in_progress")}
    /\ StatusOf(polls[n + 1]) = Str("completed")
\* the list is an answer of well-formed messages, the first assistant one with this text
FirstAssistantIs(ans, text) ==
    /\ ans.ok
    /\ Path(ans.json, <<Key("data")>>).kind = "value"
    /\ LET data == ans.json.o["data"] IN
       /\ data.t = "arr"
       /\ \A i \in 1..Len(data.a) : data.a[i] \in MsgValues
       /\ \E i \in 1..Len(data.a) :
            /\ data.a[i].o["role"] = Str("assistant")
            /\ \A j \in 1..(i - 1) : data.a[j].o["role"] # Str("assistant")
            /\ data.a[i].o["content"].a[1].o["text"].o["value"] = text
\* every poll answered with a status
StatusPolls(t) == SelectSeq(Polls(t), HasStatus)
IsWaiting(c) == StatusOf(c) \notin EndStatuses
WaitingPolls(t) == SelectSeq(StatusPolls(t), IsWaiting)

\* C2: a poll answered completed is the last poll and is followed by no
\* wait; the handler has slept once per waiting status it has moved past;
\* and a turn whose run reported n waiting statuses and then completed made
\* n+1 polls, slept n times, listed the messages once, as its last call, and
\* returned a success envelope with the text of the first assistant message.
C2_PollUntilCompleted ==
    \A t \in Turns :
        LET polls == Polls(t) IN
        /\ \A i \in 1..Len(polls) :
             (HasStatus(polls[i]) /\ StatusOf(polls[i]) = Str("completed"))
                => (i = Len(polls) /\ pc[t] \in {"list_messages", "done"})
        /\ sleeps[t] = Len(WaitingPolls(t)) - (IF pc[t] = "sleep" THEN 1 ELSE 0)
        /\ pc[t] = "list_messages" => Lists(t) = <<>>
        /\ \A n \in 0..Len(calls[t]) :
             (Done(t) /\ CompletedAfter(t, n)) =>
                /\ sleeps[t] = n
                /\ Len(Lists(t)) = 1
                /\ IsList(LastCall(t))
                /\ \A text \in {Str("Paris"), Str("Rome")} :
                     FirstAssistantIs(LastCall(t).ans, text)
                        => CarriesReply(response[t], text)
\* a turn that saw queued, then in_progress, then completed and answered "Rome"
C2_Witness ==
    \E t \in Turns :
        /\ Done(t)
        /\ CompletedAfter(t, 2)
        /\ StatusOf(Polls(t)[1]) = Str("queued")
        /\ StatusOf(Polls(t)[2]) = Str("in_progress")
        /\ sleeps[t] = 2
        /\ FirstAssistantIs(LastCall(t).ans, Str("Rome"))
        /\ Len(LastCall(t).ans.json.o["data"].a) = 2
        /\ CarriesReply(response[t], Str("Rome"))

\* C3: once a poll is answered failed or cancelled, that poll is the turn's
\* last remote call (no further poll, no list_messages) and the turn has
\* ended with an HTTP 200 error envelope of code -32000 whose message is
\* "Run <status>" and whose id is the request's id.
C3_RunFailureEndsTurn ==
    \A t \in Turns : \A i \in 1..Len(calls[t]) :
        LET c == calls[t][i] IN
        (IsPoll(c) /\ HasStatus(c) /\ StatusOf(c) \in {Str("failed"), Str("cancelled")})
        => /\ i = Len(calls[t])
           /\ Done(t)
           /\ IsError(response[t], -32000)
           /\ Doc(t).o["error"].o["message"] = Str("Run " \o StatusOf(c).s)
           /\ Doc(t).o["id"] = SubmittedId(body[t])
\* a turn that waited once and then saw its run cancelled
C3_Witness ==
    \E t \in Turns :
        /\ Done(t)
        /\ Len(Polls(t)) = 2
        /\ HasStatus(LastCall(t))
        /\ StatusOf(LastCall(t)) = Str("cancelled")
        /\ IsError(response[t], -32000)
        /\ Doc(t).o["id"] = Num(7)

\* C4: once a remote call of a turn has failed, it is the turn's last remote
\* call (not retried, nothing issued after it, no cleanup) and the turn has
\* ended with an HTTP 200 error envelope of code -32000.
C4_RemoteFailureEndsTurn ==
    \A t \in Turns : \A i \in 1..Len(calls[t]) :
        ~calls[t][i].ans.ok
        => /\ i = Len(calls[t])
           /\ Done(t)
           /\ IsError(response[t], -32000)
           /\ Doc(t).o["error"].o["message"] = Str(calls[t][i].ans.exc.msg)
\* a turn whose second poll failed, after the thread and the run were created
C4_Witness ==
    \E t \in Turns :
        /\ Done(t)
        /\ Len(calls[t]) = 5
        /\ IsPoll(LastCall(t))
        /\ ~LastCall(t).ans.ok
        /\ thread_id[t] # Unset
        /\ run_id[t] # Unset
        /\ IsError(response[t], -32000)

\* the body is JSON whose jsonrpc field is missing or is not "2.0"
BadVersion(b) ==
    /\ b # Unset
    /\ b # Unparseable
    /\ (IsDict(b) => Get(b, "jsonrpc", None) # Str("2.0"))
\* C5: every finished request whose jsonrpc field is missing or not "2.0"
\* (a non-object JSON body included) was answered HTTP 200 with code -32600.
C5_BadVersionIs32600 ==
    \A t \in Turns : (Done(t) /\ BadVersion(body[t])) => IsError(response[t], -32600)

\* the request is an object with jsonrpc "2.0" whose method is not a supported one
UnknownMethod(b) ==
    /\ b # Unset
    /\ IsDict(b)
    /\ Get(b, "jsonrpc", None) = Str("2.0")
    /\ Get(b, "method", None) \notin {Str("message/send"), Str("sendMessage")}
EnvelopeOk(b) ==
    /\ b # Unset
    /\ IsDict(b)
    /\ Get(b, "jsonrpc", None) = Str("2.0")
    /\ Get(b, "method", None) \in {Str("message/send"), Str("sendMessage")}
    /\ Has(b, "id")
\* the parts of the request's message; none when params.message.parts is no list
PartsOf(b) ==
    LET parts == Path(b, <<Key("params"), Key("message"), Key("parts")>>) IN
    IF parts.kind = "value" /\ parts.v.t = "arr" THEN parts.v.a ELSE <<>>
\* the tag by which each service marks a part as textual
TextTag == IF service = FUNCTION_APP THEN "type" ELSE "kind"
\* a text-kind part with non-empty text
Qualifies(part) ==
    /\ IsDict(part)
    /\ Get(part, TextTag, None) = Str("text")
    /\ Get(part, "text", None).t = "str"
    /\ Get(part, "text", None).s # ""

\* C7: every finished request that passes the envelope checks and has no
\* text-kind part with non-empty text was answered with code -32602.
C7_NoTextIs32602 ==
    \A t \in Turns :
        (/\ Done(t)
         /\ EnvelopeOk(body[t])
         /\ \A i \in 1..Len(PartsOf(body[t])) : ~Qualifies(PartsOf(body[t])[i]))
        => IsError(response[t], -32602)

\* C8: for every request that passes the envelope checks and carries a list
\* of parts, each an object, once the head of the handler has run: if some
\* part qualifies, the text kept for the remote service is that of the
\* first qualifying part, and otherwise (only then) the request was
\* rejected with -32602.
C8_FirstTextPartForwarded ==
    \A t \in Turns :
        LET parts == PartsOf(body[t])
            hits == {i \in 1..Len(parts) : Qualifies(parts[i])}
        IN
        (/\ pc[t] \notin {"idle", "received"}
         /\ EnvelopeOk(body[t])
         /\ Path(body[t], <<Key("params"), Key("message"), Key("parts")>>).kind = "value"
         /\ Path(body[t], <<Key("params"), Key("message"), Key("parts")>>).v.t = "arr"
         /\ \A i \in 1..Len(parts) : IsDict(parts[i]))
        => IF hits = {}
           THEN IsError(response[t], -32602)
           ELSE /\ user_text[t] = parts[CHOOSE i \in hits : \A j \in hits : i <= j].o["text"]
                /\ ~IsError(response[t], -32602)
                /\ response[t].kind # "fault"

\* C9: every response to a request that carries an id has that id; its id
\* is null only when the request carried none.
C9_IdEchoed ==
    \A t \in Turns :
        (Done(t) /\ response[t].kind = "http" /\ IsDict(body[t]) /\ Has(body[t], "id"))
        => Doc(t).o["id"] = body[t].o["id"]

\* C10: every envelope either handler returned has jsonrpc "2.0" and
\* exactly one of the fields result and error.
C10_ResultXorError ==
    \A t \in Turns :
        response[t].kind = "http"
        => /\ IsDict(Doc(t))
           /\ Has(Doc(t), "jsonrpc")
           /\ Doc(t).o["jsonrpc"] = Str("2.0")
           /\ (Has(Doc(t), "result") \/ Has(Doc(t), "error"))
           /\ ~(Has(Doc(t), "result") /\ Has(Doc(t), "error"))
\* local_agent returned a task as result, and no error field
C10_Witness ==
    \E t \in Turns :
        /\ service = LOCAL_AGENT
        /\ Done(t)
        /\ response[t].kind = "http"
        /\ Has(Doc(t), "result")
        /\ ~Has(Doc(t), "error")
        /\ Doc(t).o["result"].o["kind"] = Str("task")

\* the request of the end-to-end example: jsonrpc "2.0", message/send,
\* id "1", one part {"kind": "text", "text": T}
ExampleBody ==
    Mk([jsonrpc |-> Str("2.0"), method |-> Str("message/send"), id |-> Str("1"),
        params |-> MessageWith(Arr(<<TextPart("kind", Str("hi"))>>))])
\* every remote call turn t made was answered well: no failure, no run
\* failure, and a message list whose first assistant message is `text`
ServedWell(t, text) ==
    \A i \in 1..Len(calls[t]) :
        LET c == calls[t][i] IN
        /\ c.ans.ok
        /\ OpOf(c) \in {"create_thread", "start_run"} => Has(c.ans.json, "id")
        /\ IsPoll(c) => (HasStatus(c) /\ StatusOf(c) \notin {Str("failed"), Str("cancelled")})
        /\ IsList(c) => FirstAssistantIs(c.ans, text)

\* C11: the example request, served by a remote service whose run ends
\* completed and whose list holds the assistant message R, is answered by
\* either handler with a success envelope of id "1" and reply text R.
C11_ExampleSucceeds ==
    \A t \in Turns : \A R \in {Str("Paris"), Str("Rome")} :
        (Done(t) /\ body[t] = ExampleBody /\ ServedWell(t, R))
        => /\ CarriesReply(response[t], R)
           /\ Doc(t).o["id"] = Str("1")

\* the answer is a list of well-formed messages
WellFormedList(ans) ==
    /\ ans.ok
    /\ Path(ans.json, <<Key("data")>>).kind = "value"
    /\ ans.json.o["data"].t = "arr"
    /\ \A i \in 1..Len(ans.json.o["data"].a) : ans.json.o["data"].a[i] \in MsgValues
\* the list holds no assistant message
NoAssistantIn(ans) ==
    \A i \in 1..Len(ans.json.o["data"].a) :
        ans.json.o["data"].a[i].o["role"] # Str("assistant")

\* C12: a turn that ended on a list of messages succeeded; its reply text is
\* that of the first assistant message in the order of the list, and the
\* literal "No reply" when the list holds no assistant message.
C12_FirstAssistantOrNoReply ==
    \A t \in Turns :
        (Done(t) /\ calls[t] # <<>> /\ IsList(LastCall(t)) /\ WellFormedList(LastCall(t).ans))
        => /\ IsSuccess(response[t])
           /\ \A text \in {Str("Paris"), Str("Rome")} :
                FirstAssistantIs(LastCall(t).ans, text) => CarriesReply(response[t], text)
           /\ NoAssistantIn(LastCall(t).ans) => CarriesReply(response[t], Str("No reply"))
\* a turn whose list held the user's message alone and that answered "No reply"
C12_Witness ==
    \E t \in Turns :
        /\ Done(t)
        /\ calls[t] # <<>>
        /\ IsList(LastCall(t))
        /\ WellFormedList(LastCall(t).ans)
        /\ Len(LastCall(t).ans.json.o["data"].a) = 1
        /\ NoAssistantIn(LastCall(t).ans)
        /\ CarriesReply(response[t], Str("No reply"))

\* C13: a request without an id field is never processed as a chat turn:
\* the handler makes no remote call for it and, when it answers at all,
\* answers with an error envelope.
C13_NoIdRejected ==
    \A t \in Turns :
        (body[t] # Unset /\ IsDict(body[t]) /\ ~Has(body[t], "id"))
        => /\ calls[t] = <<>>
           /\ pc[t] \in {"idle", "received", "done"}
           /\ response[t].kind = "http"
                => (Is200Envelope(response[t]) /\ Has(Doc(t), "error"))

\* what a handler decided on a request body before any remote call: the
\* accept-or-reject decision, the error code of a rejection, the text accepted
Decision(out) ==
    CASE out.kind = "go" -> <<"accept", out.user_text>>
      [] out.kind = "return" -> <<"reject", out.response.doc.o["error"].o["code"]>>
      [] out.kind = "raise" -> <<"fault", out.exc.type>>

\* C14: on every request body that neither handler faults on, function_app.chat
\* and local_agent.chat take the same decision: both accept it with the same
\* user text, or both reject it with the same JSON-RPC error code.
C14_SameDecision ==
    \A t \in Turns :
        LET f == function_app_head(body[t])
            l == local_agent_head(body[t])
        IN (body[t] # Unset /\ f.kind # "raise" /\ l.kind # "raise")
           => Decision(f) = Decision(l)

\* the request is a GET on a discovery path
DiscoveryGet(req) ==
    /\ req.method = "GET"
    /\ Len(req.path) >= 2
    /\ SubSeq(req.path, Len(req.path) - 1, Len(req.path)) = <<".well-known", "agent-card.json">>
\* the Agent Card each handler serves
CardOf(h) ==
    CASE h = FUNCTION_APP -> function_app_card
      [] h = LOCAL_AGENT -> local_agent_card
      [] h = GETAGENTCARD -> agent_card_json
AllowsAnyOrigin(r) ==
    /\ "Access_Control_Allow_Origin" \in DOMAIN r.headers
    /\ r.headers["Access_Control_Allow_Origin"] = "*"

\* C15: every response to a GET on a discovery path, from each of the three
\* discovery handlers, is HTTP 200 with JSON content type, carries
\* Access-Control-Allow-Origin: * and the handler's Agent Card, whatever
\* the request carries and however many requests were served before.
C15_DiscoveryResponse ==
    (discovery.pc = "done" /\ DiscoveryGet(discovery.request))
    => /\ discovery.response.status = 200
       /\ discovery.response.mimetype = JSON
       /\ AllowsAnyOrigin(discovery.response)
       /\ discovery.response.doc = CardOf(discovery.handler)

\* the place of each remote operation in a turn
Rank(c) ==
    CASE OpOf(c) = "create_thread" -> 1
      [] OpOf(c) = "post_message" -> 2
      [] OpOf(c) = "start_run" -> 3
      [] OpOf(c) = "get_run_status" -> 4
      [] OpOf(c) = "list_messages" -> 5
      [] OTHER -> 0
OnceOps == {"create_thread", "post_message", "start_run", "list_messages"}
Count(t, op) == Cardinality({i \in 1..Len(calls[t]) : OpOf(calls[t][i]) = op})

\* C16: the remote calls of a turn, successful or failed, are a prefix of
\* create_thread, post_message, start_run, get_run_status (one or more),
\* list_messages: the first call is create_thread, each call is the next
\* operation after the one before it or one more status poll; create_thread,
\* post_message, start_run and list_messages occur at most once; and
\* list_messages comes right after a poll answered completed.
C16_CallOrder ==
    \A t \in Turns :
        /\ calls[t] # <<>> => Rank(calls[t][1]) = 1
        /\ \A i \in 1..(Len(calls[t]) - 1) :
             \/ Rank(calls[t][i + 1]) = Rank(calls[t][i]) + 1
             \/ Rank(calls[t][i]) = 4 /\ Rank(calls[t][i + 1]) = 4
        /\ \A op \in OnceOps : Count(t, op) <= 1
        /\ \A i \in 1..Len(calls[t]) :
             IsList(calls[t][i])
                => /\ i > 1
                   /\ IsPoll(calls[t][i - 1])
                   /\ HasStatus(calls[t][i - 1])
                   /\ StatusOf(calls[t][i - 1]) = Str("completed")
\* a finished turn that made all five kinds of call, with three polls
C16_Witness ==
    \E t \in Turns :
        /\ Done(t)
        /\ Len(calls[t]) = 7
        /\ Count(t, "get_run_status") = 3
        /\ IsList(LastCall(t))

ValidationCodes == {-32700, -32600, -32601, -32602}

\* C17: a request answered with one of the codes -32700, -32600, -32601,
\* -32602 caused no remote call: the turn's call log is empty and no thread
\* id or run id was obtained for it.
C17_RejectedMakesNoCall ==
    \A t \in Turns : \A code \in ValidationCodes :
        (Done(t) /\ IsError(response[t], code))
        => /\ calls[t] = <<>>
           /\ thread_id[t] = Unset
           /\ run_id[t] = Unset
\* a request with no text part, answered -32602 before any call
C17_Witness ==
    \E t \in Turns :
        /\ Done(t)
        /\ IsError(response[t], -32602)
        /\ IsDict(body[t]) /\ Has(body[t], "params")
        /\ calls[t] = <<>>

\* C19: a status poll answered with any status other than completed, failed
\* or cancelled (a status outside the documented set included) does not end
\* the loop: it is followed by another poll, or it is the last call so far
\* and the handler is in its delay or about to poll again, with no response
\* produced.
C19_OnlyTerminalLeavesPolling ==
    \A t \in Turns : \A i \in 1..Len(calls[t]) :
        LET c == calls[t][i] IN
        (IsPoll(c) /\ HasStatus(c) /\ IsWaiting(c))
        => IF i < Len(calls[t])
           THEN IsPoll(calls[t][i + 1])
           ELSE /\ pc[t] \in {"sleep", "poll"}
                /\ response[t] = NoResponse
                /\ loop = t
\* a run that reported expired, was polled again and then completed
C19_Witness ==
    \E t \in Turns :
        /\ Len(calls[t]) >= 5
        /\ HasStatus(calls[t][4]) /\ StatusOf(calls[t][4]) = Str("expired")
        /\ IsPoll(calls[t][5])
        /\ HasStatus(calls[t][5]) /\ StatusOf(calls[t][5]) = Str("completed")
        /\ sleeps[t] = 1

\* the handler of turn t is past validation and has not returned
Accepted(t) == pc[t] \notin {"idle", "received", "done"}

\* C18: when every remote call returns and the run reports a terminal
\* status after finitely many others, every accepted turn eventually
\* returns; what it returns is one response envelope, produced once and
\* never replaced.
C18_AcceptedTurnResponds ==
    /\ \A t \in Turns : Accepted(t) ~> Done(t)
    /\ [](\A t \in Turns : (Done(t) /\ calls[t] # <<>>) => Is200Envelope(response[t]))
    /\ [][\A t \in Turns : response[t] # NoResponse => response'[t] = response[t]]_vars
\* a turn that returned after two non-terminal polls
C18_Witness ==
    \E t \in Turns :
        /\ Done(t)
        /\ Len(WaitingPolls(t)) >= 2
        /\ IsSuccess(response[t])

\* turn t is in its polling loop: about to poll, or in the delay between polls
Polling(t) == pc[t] \in {"poll", "sleep"}

\* C20: the polling wait of one turn does not block the other: while a turn
\* is in its polling loop, a request the process has received for the other
\* turn can be taken up by its handler.
C20_PollingDoesNotBlock ==
    \A t \in Turns : \A u \in Turns \ {t} :
        (Polling(t) /\ pc[u] = "received") => ENABLED Validate(u)

====
